---- MODULE Spec2Model ----
(***************************************************************************)
(* A model of the request router of src/src/router.rs: one radix tree per  *)
(* HTTP method (Router::trees), route registration (Router::handle), the   *)
(* manual lookup (Router::lookup), the allowed-methods query               *)
(* (Router::allowed) and the hyper dispatch (hyper_server::Router::serve). *)
(*                                                                         *)
(* The tree itself (crate::tree::Node) and crate::path::clean_path are not *)
(* part of src/; they are modelled from sections 3, 4 and 6 of spec.md.    *)
(*                                                                         *)
(* Strings are sequences of one-character strings, so that prefixes,       *)
(* segments and joins are computed and not assumed.                        *)
(***************************************************************************)
EXTENDS Integers, Sequences, FiniteSets, TLC

VARIABLES
  trees,                      \* Router::trees : HashMap<Method, Node<T>>
  redirect_trailing_slash,    \* Router::redirect_trailing_slash
  redirect_fixed_path,        \* Router::redirect_fixed_path
  handle_method_not_allowed,  \* Router::handle_method_not_allowed
  handle_options,             \* Router::handle_options
  global_options,             \* Router::global_options : Option<T>
  global_allowed,             \* Router::global_allowed : String
  not_found,                  \* Router::not_found : Option<T>
  method_not_allowed,         \* Router::method_not_allowed : Option<T>
  routes,                     \* history: the registrations that succeeded
  panicked,                   \* a registration panicked: the program is gone
  last                        \* the call that has just returned, and its result

vars == <<trees, redirect_trailing_slash, redirect_fixed_path,
          handle_method_not_allowed, handle_options, global_options,
          global_allowed, not_found, method_not_allowed, routes, panicked, last>>

config == <<redirect_trailing_slash, redirect_fixed_path,
            handle_method_not_allowed, handle_options, global_options,
            global_allowed, not_found, method_not_allowed>>

----------------------------------------------------------------------------
(* Bounds *)

\* the number of registrations one run makes
MaxRoutes == 3
\* the longest path handed to lookup
MaxPathLen == 4
\* the number of registrations one run of the dispatch specification makes
MaxServeRoutes == 2
\* the longest request path of the dispatch and query specifications
MaxServePathLen == 3
\* the number of registrations one run of the query specification makes
MaxQueryRoutes == 3

----------------------------------------------------------------------------
(* Strings *)

\* Option::None; a handler that is present is a non-empty tuple
None == <<>>

Take(s, n) == SubSeq(s, 1, n)
Drop(s, n) == SubSeq(s, n + 1, Len(s))

IsPrefix(p, s) == Len(p) <= Len(s) /\ Take(s, Len(p)) = p

\* length of the longest common prefix
LCP(a, b) ==
  LET m == IF Len(a) < Len(b) THEN Len(a) ELSE Len(b)
      agree == {i \in 0..m : Take(a, i) = Take(b, i)}
  IN  CHOOSE i \in agree : \A j \in agree : j <= i

\* length of the segment at the head of s: up to the next '/' or the end
SegLen(s) ==
  IF \E i \in 1..Len(s) : s[i] = "/"
  THEN (CHOOSE i \in 1..Len(s) : s[i] = "/" /\ \A j \in 1..(i - 1) : s[j] # "/") - 1
  ELSE Len(s)

\* the enumerations of a finite set, each element once
Orders(S) ==
  {f \in [1..Cardinality(S) -> S] : \A i, j \in 1..Cardinality(S) : f[i] = f[j] => i = j}

IsWild(c) == c = ":" \/ c = "*"

HasWild(s) == \E i \in 1..Len(s) : IsWild(s[i])

\* ASCII lower case of one character, and of a string
LowerChar(c) == IF c = "A" THEN "a" ELSE IF c = "B" THEN "b" ELSE c
Lower(s) == [i \in 1..Len(s) |-> LowerChar(s[i])]

----------------------------------------------------------------------------
(* crate::tree::Node (spec.md section 3): the vertex of a per-method tree *)

MkNode(fragment, kind, name, handler, children, priority) ==
  [fragment |-> fragment, kind |-> kind, name |-> name, handler |-> handler,
   children |-> children, priority |-> priority]

\* Node::default(): the empty root
EmptyNode == MkNode(<<>>, "Static", <<>>, None, <<>>, 0)

IsEmptyNode(n) == n.fragment = <<>> /\ n.children = <<>> /\ n.handler = None

Done(n) == [ok |-> TRUE, node |-> n]
Conflict(n) == [ok |-> FALSE, node |-> n]

\* rest begins with the "/" and "*" of a catch-all segment
IsCatchAllPat(rest) == Len(rest) >= 2 /\ rest[1] = "/" /\ rest[2] = "*"

\* a wildcard name is not empty and holds no '/', ':' or '*'
ValidName(name) ==
  name # <<>> /\ \A i \in 1..Len(name) : name[i] # "/" /\ ~IsWild(name[i])

\* the catch-all leaf for rest = "/*name" (it must be the final element)
CatchAllNode(rest, h) == MkNode(<<"*">>, "CatchAll", Drop(rest, 2), h, <<>>, 1)

\* the static text at the head of rest: it ends before a ':' and before
\* the '/' of a catch-all
StaticLen(rest) ==
  LET stops == {i \in 1..Len(rest) :
                  IsWild(rest[i]) \/ IsCatchAllPat(Drop(rest, i - 1))}
  IN  IF stops = {} THEN Len(rest)
      ELSE (CHOOSE i \in stops : \A j \in stops : i <= j) - 1

\* the chain of new nodes for a pattern remainder that meets no existing
\* node (section 4.1 steps 1 and 3); rest is not empty and is no catch-all
RECURSIVE Build(_, _)
Build(rest, h) ==
  IF rest[1] = "*" THEN Conflict(EmptyNode)
  ELSE
    LET isParam == rest[1] = ":"
        k == IF isParam THEN 1 + SegLen(Drop(rest, 1)) ELSE StaticLen(rest)
        name == IF isParam THEN SubSeq(rest, 2, k) ELSE <<>>
        frag == IF isParam THEN <<":">> ELSE Take(rest, k)
        kind == IF isParam THEN "Param" ELSE "Static"
        after == Drop(rest, k)
    IN  IF isParam /\ ~ValidName(name) THEN Conflict(EmptyNode)
        ELSE IF after = <<>> THEN Done(MkNode(frag, kind, name, h, <<>>, 1))
        ELSE IF IsCatchAllPat(after)
        THEN IF ValidName(Drop(after, 2))
             THEN Done(MkNode(frag, kind, name, None, <<CatchAllNode(after, h)>>, 1))
             ELSE Conflict(EmptyNode)
        ELSE LET sub == Build(after, h)
             IN  IF sub.ok
                 THEN Done(MkNode(frag, kind, name, None, <<sub.node>>, 1))
                 ELSE Conflict(EmptyNode)

\* the child at position j has gained priority: move it in front of the
\* children of lower priority, the others keeping their order (step 4)
Resort(children, j) ==
  LET c == children[j]
      before == {i \in 1..(j - 1) : children[i].priority < c.priority}
      t == IF before = {} THEN j ELSE CHOOSE i \in before : \A i2 \in before : i <= i2
  IN  [i \in 1..Len(children) |->
         IF i < t \/ i > j THEN children[i]
         ELSE IF i = t THEN c ELSE children[i - 1]]

\* does the existing child k continue the pattern remainder rest ?
ChildTakes(k, rest) ==
  CASE k.kind = "Static" -> k.fragment[1] = rest[1]
    [] k.kind = "Param" ->
         /\ IsPrefix(<<":">> \o k.name, rest)
         /\ (Len(rest) = 1 + Len(k.name) \/ rest[2 + Len(k.name)] = "/")
    [] OTHER -> FALSE

HasKind(n, kind) == \E j \in 1..Len(n.children) : n.children[j].kind = kind

\* the terminal node of the pattern receives the handler (step 5)
SetHandler(n, h) ==
  IF n.handler # None THEN Conflict(n) ELSE Done([n EXCEPT !.handler = h])

\* AddTo: insert the pattern remainder rest, which begins at node n.
\* Descend: the fragment of n is consumed; place the non-empty rest below n.
RECURSIVE AddTo(_, _, _), Descend(_, _, _)
Descend(n, rest, h) ==
  LET takers == {j \in 1..Len(n.children) : ChildTakes(n.children[j], rest)}
  IN  IF HasKind(n, "Param") /\ takers = {} THEN Conflict(n)
      ELSE IF IsCatchAllPat(rest)
      THEN IF takers # {} \/ HasKind(n, "CatchAll") \/ ~ValidName(Drop(rest, 2))
           THEN Conflict(n)
           ELSE Done([n EXCEPT !.children = Append(@, CatchAllNode(rest, h))])
      ELSE IF rest[1] = "*" THEN Conflict(n)
      ELSE IF rest[1] = ":" /\ takers = {} /\ n.children # <<>> THEN Conflict(n)
      ELSE IF rest[1] = "/" /\ HasKind(n, "CatchAll") THEN Conflict(n)
      ELSE IF takers # {}
      THEN LET j == CHOOSE i \in takers : TRUE
               sub == AddTo(n.children[j], rest, h)
           IN  IF sub.ok
               THEN Done([n EXCEPT !.children = Resort([@ EXCEPT ![j] = sub.node], j)])
               ELSE Conflict(n)
      ELSE LET sub == Build(rest, h)
           IN  IF sub.ok
               THEN Done([n EXCEPT !.children = Append(@, sub.node)])
               ELSE Conflict(n)

AddTo(n, rest, h) ==
  IF n.kind = "Param"
  THEN LET after == Drop(rest, 1 + Len(n.name))
           n2 == [n EXCEPT !.priority = @ + 1]
       IN  IF after = <<>> THEN SetHandler(n2, h) ELSE Descend(n2, after, h)
  ELSE LET i == LCP(rest, n.fragment)
           \* split: the common prefix becomes a new intermediate node and
           \* the old node, with its handler and children, its only child
           n1 == IF i < Len(n.fragment)
                 THEN MkNode(Take(n.fragment, i), "Static", <<>>, None,
                             <<[n EXCEPT !.fragment = Drop(@, i)]>>, n.priority)
                 ELSE n
           n2 == [n1 EXCEPT !.priority = @ + 1]
       IN  IF i = Len(rest) THEN SetHandler(n2, h)
           ELSE Descend(n2, Drop(rest, i), h)

\* Node::add_route(pattern, handler) (section 4.1); ok = FALSE is the
\* registration conflict, which the caller sees as a panic
add_route(root, pattern, h) ==
  IF pattern = <<>> THEN Conflict(root)
  ELSE IF ~IsEmptyNode(root) THEN AddTo(root, pattern, h)
  ELSE IF IsCatchAllPat(pattern) THEN Descend([root EXCEPT !.priority = 1], pattern, h)
  ELSE Build(pattern, h)

----------------------------------------------------------------------------
(* crate::tree::Node::get_value (spec.md section 4.2) *)

\* Result<RouteLookup<T>, bool>
Ok(h, params) == [kind |-> "Ok", value |-> h, params |-> params, tsr |-> FALSE]
Err(tsr) == [kind |-> "Err", value |-> None, params |-> <<>>, tsr |-> tsr]

Param(key, value) == [key |-> key, value |-> value]

\* the children of n that may continue the path remainder rest: the static
\* children with its first byte, a named parameter, a catch-all at a '/'
Continuing(n, rest) ==
  {j \in 1..Len(n.children) :
     LET k == n.children[j]
     IN  CASE k.kind = "Static" -> k.fragment[1] = rest[1]
           [] k.kind = "Param" -> TRUE
           [] OTHER -> rest[1] = "/"}

\* the child tried first: the children are probed in their stored order
FirstOf(js) == CHOOSE j \in js : \A j2 \in js : j <= j2

\* one more '/' after the end of n reaches a handler
SlashBelow(n) ==
  \E j \in 1..Len(n.children) :
     LET k == n.children[j]
     IN  \/ k.kind = "CatchAll"
         \/ k.kind = "Static" /\ k.fragment = <<"/">> /\ k.handler # None

\* Walk: match path from node n on; above is TRUE when the path consumed so
\* far ends at a handler. After: the fragment of n is consumed and rest is
\* left; back is TRUE when the byte consumed last was a '/' that follows
\* a handler.
RECURSIVE Walk(_, _, _, _), After(_, _, _, _)
After(n, rest, params, back) ==
  IF rest = <<>>
  THEN IF n.handler # None THEN Ok(n.handler, params)
       ELSE Err(back \/ SlashBelow(n))
  ELSE LET js == Continuing(n, rest)
       IN  IF js = {} THEN Err(rest = <<"/">> /\ n.handler # None)
           ELSE LET k == n.children[FirstOf(js)]
                IN  IF k.kind = "CatchAll"
                    THEN Ok(k.handler, Append(params, Param(k.name, rest)))
                    ELSE Walk(k, rest, params, n.handler # None)

Walk(n, path, params, above) ==
  IF n.kind = "Param"
  THEN LET len == SegLen(path)
       IN  IF len = 0 THEN Err(path = <<"/">> /\ above)
           ELSE After(n, Drop(path, len),
                      Append(params, Param(n.name, Take(path, len))), FALSE)
  ELSE IF IsPrefix(n.fragment, path)
  THEN After(n, Drop(path, Len(n.fragment)), params,
             n.fragment = <<"/">> /\ above)
  ELSE Err(\/ path = <<"/">> /\ above
           \/ n.fragment = path \o <<"/">> /\ n.handler # None)

get_value(root, path) == Walk(root, path, <<>>, FALSE)

----------------------------------------------------------------------------
(* crate::tree::Node::find_case_insensitive_path (spec.md section 4.3) *)

Found(path) == [found |-> TRUE, path |-> path]
NoPath == [found |-> FALSE, path |-> <<>>]

\* the children that may continue rest when ASCII case is ignored
ContinuingCI(n, rest) ==
  {j \in 1..Len(n.children) :
     LET k == n.children[j]
     IN  CASE k.kind = "Static" -> LowerChar(k.fragment[1]) = LowerChar(rest[1])
           [] k.kind = "Param" -> TRUE
           [] OTHER -> rest[1] = "/"}

\* the traversal of Walk and After; out is the canonical path built so far
RECURSIVE WalkCI(_, _, _, _, _), AfterCI(_, _, _, _, _)
AfterCI(n, rest, out, fix, back) ==
  IF rest = <<>>
  THEN IF n.handler # None THEN Found(out)
       ELSE IF fix /\ SlashBelow(n) THEN Found(out \o <<"/">>)
       ELSE IF fix /\ back THEN Found(Take(out, Len(out) - 1))
       ELSE NoPath
  ELSE LET js == ContinuingCI(n, rest)
           try(j) == IF n.children[j].kind = "CatchAll" THEN Found(out \o rest)
                     ELSE WalkCI(n.children[j], rest, out, fix, n.handler # None)
           hits == {j \in js : try(j).found}
       IN  IF hits # {} THEN try(FirstOf(hits))
           ELSE IF fix /\ rest = <<"/">> /\ n.handler # None THEN Found(out)
           ELSE NoPath

WalkCI(n, path, out, fix, above) ==
  IF n.kind = "Param"
  THEN LET len == SegLen(path)
       IN  IF len = 0
           THEN IF fix /\ path = <<"/">> /\ above THEN Found(out) ELSE NoPath
           ELSE AfterCI(n, Drop(path, len), out \o Take(path, len), fix, FALSE)
  ELSE IF Len(n.fragment) <= Len(path)
          /\ Lower(Take(path, Len(n.fragment))) = Lower(n.fragment)
  THEN AfterCI(n, Drop(path, Len(n.fragment)), out \o n.fragment, fix,
               n.fragment = <<"/">> /\ above)
  ELSE IF fix /\ path = <<"/">> /\ above THEN Found(out)
  ELSE IF fix /\ Lower(path \o <<"/">>) = Lower(n.fragment) /\ n.handler # None
  THEN Found(out \o n.fragment)
  ELSE NoPath

find_case_insensitive_path(root, path, fix_trailing_slash) ==
  WalkCI(root, path, <<>>, fix_trailing_slash, FALSE)

----------------------------------------------------------------------------
(* crate::path::clean_path (spec.md section 1): collapse "//", resolve "." *)
(* and "..", keep a trailing slash, always begin with '/'                  *)

\* the segments of s between its '/' characters
RECURSIVE Split(_)
Split(s) ==
  LET k == SegLen(s)
  IN  IF k = Len(s) THEN <<s>> ELSE <<Take(s, k)>> \o Split(Drop(s, k + 1))

\* the segments that stay: "" and "." are dropped, ".." drops the one before
RECURSIVE Resolve(_, _)
Resolve(segs, kept) ==
  IF segs = <<>> THEN kept
  ELSE LET g == Head(segs)
       IN  IF g = <<>> \/ g = <<".">> THEN Resolve(Tail(segs), kept)
           ELSE IF g = <<".", ".">>
           THEN Resolve(Tail(segs), Take(kept, IF kept = <<>> THEN 0 ELSE Len(kept) - 1))
           ELSE Resolve(Tail(segs), Append(kept, g))

RECURSIVE Rooted(_)
Rooted(segs) ==
  IF segs = <<>> THEN <<>> ELSE <<"/">> \o Head(segs) \o Rooted(Tail(segs))

clean_path(p) ==
  LET body == Rooted(Resolve(Split(p), <<>>))
  IN  IF body = <<>> THEN <<"/">>
      ELSE IF Len(p) > 1 /\ p[Len(p)] = "/" THEN body \o <<"/">>
      ELSE body

----------------------------------------------------------------------------
(* Inputs *)

Methods == {"GET", "POST", "OPTIONS", "CONNECT"}

\* The router is generic in its handler type T and never inspects a handler:
\* each route is given a handler of its own, named after the route.
HandlerOf(method, pattern) == <<method, pattern>>

\* the route patterns offered to handle: static routes that share prefixes,
\* named parameters (two of them with clashing names), a catch-all and a
\* pattern that does not begin with '/'
Patterns ==
  { <<"/", "a">>,
    <<"/", "a", "/">>,
    <<"/", "a", "A">>,
    <<"/", "a", "/", ":", "x">>,
    <<"/", "a", "/", ":", "y">>,
    <<"/", ":", "x", "/", ":", "y">>,
    <<"/", "A", "/", "*", "z">>,
    <<"a">> }

\* the bytes of a request path
Alphabet == {"/", "a", "A"}

\* every string over Alphabet of at most n bytes
PathsUpTo(n) == UNION {[1..k -> Alphabet] : k \in 0..n}

----------------------------------------------------------------------------
(* Router (src/src/router.rs) *)

\* no call has returned, or its result was taken
NoCall == [op |-> "none"]

Call(op, method, path, arg, res) ==
  [op |-> op, method |-> method, path |-> path, arg |-> arg, res |-> res]

\* impl Default for Router
Init ==
  /\ trees = <<>>
  /\ redirect_trailing_slash = TRUE
  /\ redirect_fixed_path = TRUE
  /\ handle_method_not_allowed = TRUE
  /\ handle_options = TRUE
  /\ global_allowed = <<>>
  /\ global_options = None
  /\ method_not_allowed = None
  /\ not_found = None
  /\ routes = {}
  /\ panicked = FALSE
  /\ last = NoCall

\* HashMap::entry(method).or_insert_with(Node::default)
Entry(method) == IF method \in DOMAIN trees THEN trees[method] ELSE EmptyNode

Insert(method, node) ==
  [k \in DOMAIN trees \cup {method} |-> IF k = method THEN node ELSE trees[k]]

\* Variants of handle_outcome, each with one slip: the route goes to the GET
\* tree whatever the method; the outcome of add_route is ignored; the tree
\* of the method is replaced by a new one at each registration.
handle_under_get(method, path, h) ==
  IF path = <<>> \/ path[1] # "/" THEN [panic |-> TRUE, trees |-> trees]
  ELSE LET r == add_route(Entry("GET"), path, h)
       IN  IF r.ok THEN [panic |-> FALSE, trees |-> Insert("GET", r.node)]
           ELSE [panic |-> TRUE, trees |-> Insert("GET", Entry("GET"))]

handle_ignoring_conflict(method, path, h) ==
  IF path = <<>> \/ path[1] # "/" THEN [panic |-> TRUE, trees |-> trees]
  ELSE [panic |-> FALSE, trees |-> Insert(method, add_route(Entry(method), path, h).node)]

handle_fresh_tree(method, path, h) ==
  IF path = <<>> \/ path[1] # "/" THEN [panic |-> TRUE, trees |-> trees]
  ELSE LET r == add_route(EmptyNode, path, h)
       IN  IF r.ok THEN [panic |-> FALSE, trees |-> Insert(method, r.node)]
           ELSE [panic |-> TRUE, trees |-> Insert(method, Entry(method))]

\* Router::handle: the outcome of the call, as the panic flag and the trees
handle_outcome(method, path, h) ==
  IF path = <<>> \/ path[1] # "/" THEN [panic |-> TRUE, trees |-> trees]
  ELSE LET r == add_route(Entry(method), path, h)
       IN  IF r.ok THEN [panic |-> FALSE, trees |-> Insert(method, r.node)]
           ELSE [panic |-> TRUE, trees |-> Insert(method, Entry(method))]

handle(method, path, h) ==
  /\ ~panicked
  /\ last = NoCall
  /\ LET o == handle_outcome(method, path, h)
     IN  /\ trees' = o.trees
         /\ panicked' = o.panic
         /\ routes' = IF o.panic THEN routes ELSE routes \cup {<<method, path, h>>}
         /\ last' = Call("handle", method, path, h, [ok |-> ~o.panic])
  /\ UNCHANGED config

\* the caller takes the result of the call that returned
Return ==
  /\ last # NoCall
  /\ ~panicked
  /\ last' = NoCall
  /\ UNCHANGED <<trees, routes, panicked, config>>

\* Variants of lookup, each with one slip: a method without a tree answers
\* Err(true); the tree is fetched with entry().or_insert_with(); the path
\* loses its trailing '/' before it is matched.
lookup_default_true(method, path) ==
  [trees |-> trees,
   result |-> IF method \in DOMAIN trees THEN get_value(trees[method], path)
              ELSE Err(TRUE)]

lookup_entry(method, path) ==
  [trees |-> Insert(method, Entry(method)),
   result |-> IF method \in DOMAIN trees THEN get_value(trees[method], path)
              ELSE Err(FALSE)]

lookup_trimmed(method, path) ==
  [trees |-> trees,
   result |-> IF method \in DOMAIN trees
              THEN get_value(trees[method],
                             IF Len(path) > 1 /\ path[Len(path)] = "/"
                             THEN Take(path, Len(path) - 1) ELSE path)
              ELSE Err(FALSE)]

\* Router::lookup: the result, and the trees the &mut borrow leaves behind
lookup(method, path) ==
  [trees |-> trees,
   result |-> IF method \in DOMAIN trees THEN get_value(trees[method], path)
              ELSE Err(FALSE)]

Lookup(method, path) ==
  /\ ~panicked
  /\ last = NoCall
  /\ trees' = lookup(method, path).trees
  /\ last' = Call("lookup", method, path, None, lookup(method, path).result)
  /\ UNCHANGED <<routes, panicked, config>>

\* Vec<String>::join: the tokens with the separator between them
RECURSIVE Join(_, _)
Join(tokens, sep) ==
  IF tokens = <<>> THEN <<>>
  ELSE IF Len(tokens) = 1 THEN tokens
  ELSE <<Head(tokens), sep>> \o Join(Tail(tokens), sep)

\* A variant of AllowedMethods with one slip: the requested method is not
\* skipped.
AllowedMethodsWithRequested(path, req_method) ==
  IF path = <<"*">>
  THEN {m \in DOMAIN trees : m # "OPTIONS"}
  ELSE {m \in DOMAIN trees :
          /\ m # "OPTIONS"
          /\ get_value(trees[m], path).kind = "Ok"}

\* Router::allowed: the methods pushed by the loop over trees.keys()
AllowedMethods(path, req_method) ==
  IF path = <<"*">>
  THEN {m \in DOMAIN trees : m # "OPTIONS"}
  ELSE {m \in DOMAIN trees :
          /\ m # req_method
          /\ m # "OPTIONS"
          /\ get_value(trees[m], path).kind = "Ok"}

\* Router::allowed: the strings it may return; a HashMap yields its keys in
\* an order of its own, so every order of the pushed methods is possible
allowed(path, req_method) ==
  {Join(IF order = <<>> THEN <<>> ELSE Append(order, "OPTIONS"), ", ") :
     order \in Orders(AllowedMethods(path, req_method))}

Allowed(path, req_method) ==
  /\ ~panicked
  /\ last = NoCall
  /\ \E allow \in allowed(path, req_method) :
        last' = Call("allowed", req_method, path, None, [allow |-> allow])
  /\ UNCHANGED <<trees, routes, panicked, config>>

\* http::StatusCode
MOVED_PERMANENTLY == 301
PERMANENT_REDIRECT == 308
METHOD_NOT_ALLOWED == 405
NOT_FOUND == 404
OK == 200

\* the responses of serve: the answer of a handler that was called (the
\* route's, or one of the configured ones), or one built by the router
Response(kind, status, location, allow, handler, params) ==
  [kind |-> kind, status |-> status, location |-> location, allow |-> allow,
   handler |-> handler, params |-> params]

Handled(kind, handler, params) == Response(kind, 0, <<>>, <<>>, handler, params)
Redirect(kind, status, location) == Response(kind, status, location, <<>>, None, <<>>)
Reply(kind, status, allow) == Response(kind, status, <<>>, allow, None, <<>>)

\* serve, lines 438-441: the not_found handler, or 404
ServeNotFound ==
  IF not_found # None THEN Handled("not_found", not_found, <<>>)
  ELSE Reply("404", NOT_FOUND, <<>>)

\* A variant of ServeUnrouted with one slip: the 405 reply is given when the
\* allowed list is empty.
ServeUnroutedInverted(method, path) ==
  IF method = "OPTIONS" /\ handle_options
  THEN {IF allow # <<>>
        THEN IF global_options # None
             THEN Handled("global_options", global_options, <<>>)
             ELSE Reply("options", OK, allow)
        ELSE ServeNotFound : allow \in allowed(path, "OPTIONS")}
  ELSE IF handle_method_not_allowed
  THEN {IF allow = <<>>
        THEN IF method_not_allowed # None
             THEN Handled("method_not_allowed", method_not_allowed, <<>>)
             ELSE Reply("405", METHOD_NOT_ALLOWED, allow)
        ELSE ServeNotFound : allow \in allowed(path, method)}
  ELSE {ServeNotFound}

\* serve, lines 406-441: the automatic OPTIONS reply, the 405 reply and the
\* not-found reply
ServeUnrouted(method, path) ==
  IF method = "OPTIONS" /\ handle_options
  THEN {IF allow # <<>>
        THEN IF global_options # None
             THEN Handled("global_options", global_options, <<>>)
             ELSE Reply("options", OK, allow)
        ELSE ServeNotFound : allow \in allowed(path, "OPTIONS")}
  ELSE IF handle_method_not_allowed
  THEN {IF allow # <<>>
        THEN IF method_not_allowed # None
             THEN Handled("method_not_allowed", method_not_allowed, <<>>)
             ELSE Reply("405", METHOD_NOT_ALLOWED, allow)
        ELSE ServeNotFound : allow \in allowed(path, method)}
  ELSE {ServeNotFound}

\* serve, lines 365-370: the status of an automatic redirect
RedirectCode(method) ==
  IF method = "GET" THEN MOVED_PERMANENTLY ELSE PERMANENT_REDIRECT

\* serve, lines 373-377: the Location of the trailing-slash redirect
TsrLocation(path) ==
  IF Len(path) > 1 /\ path[Len(path)] = "/" THEN Take(path, Len(path) - 1)
  ELSE path \o <<"/">>

\* A variant of serve with one slip: CONNECT requests are redirected too.
serve_redirecting_connect(method, path) ==
  IF method \notin DOMAIN trees THEN ServeUnrouted(method, path)
  ELSE LET root == trees[method]
           r == get_value(root, path)
           fixed == find_case_insensitive_path(root, clean_path(path),
                                               redirect_trailing_slash)
       IN  IF r.kind = "Ok" THEN {Handled("route", r.value, r.params)}
           ELSE IF path # <<"/">> /\ r.tsr /\ redirect_trailing_slash
           THEN {Redirect("redirect_tsr", RedirectCode(method), TsrLocation(path))}
           ELSE IF path # <<"/">> /\ redirect_fixed_path /\ fixed.found
           THEN {Redirect("redirect_fixed", RedirectCode(method), fixed.path)}
           ELSE ServeUnrouted(method, path)

\* hyper_server::Router::serve: the responses the request may get
serve(method, path) ==
  IF method \notin DOMAIN trees THEN ServeUnrouted(method, path)
  ELSE LET root == trees[method]
           r == get_value(root, path)
           fixed == find_case_insensitive_path(root, clean_path(path),
                                               redirect_trailing_slash)
       IN  IF r.kind = "Ok" THEN {Handled("route", r.value, r.params)}
           ELSE IF method # "CONNECT" /\ path # <<"/">>
                   /\ r.tsr /\ redirect_trailing_slash
           THEN {Redirect("redirect_tsr", RedirectCode(method), TsrLocation(path))}
           ELSE IF method # "CONNECT" /\ path # <<"/">>
                   /\ redirect_fixed_path /\ fixed.found
           THEN {Redirect("redirect_fixed", RedirectCode(method), fixed.path)}
           ELSE ServeUnrouted(method, path)

Serve(method, path) ==
  /\ ~panicked
  /\ last = NoCall
  /\ \E resp \in serve(method, path) : last' = Call("serve", method, path, None, resp)
  /\ UNCHANGED <<trees, routes, panicked, config>>

\* the optional handlers an owner installs: not_found and method_not_allowed
\* each set or unset, global_options set exactly where both of them are
InstalledHandlers ==
  { h \in [global_options : {None, <<"global_options">>},
           not_found : {None, <<"not_found">>},
           method_not_allowed : {None, <<"method_not_allowed">>}] :
      (h.global_options # None)
        <=> (h.not_found # None /\ h.method_not_allowed # None) }

\* the public fields of Router are assigned by its owner
Configure ==
  /\ ~panicked
  /\ last = NoCall
  /\ redirect_trailing_slash' \in BOOLEAN
  /\ redirect_fixed_path' \in BOOLEAN
  /\ handle_method_not_allowed' \in BOOLEAN
  /\ handle_options' \in BOOLEAN
  /\ \E h \in InstalledHandlers :
        /\ global_options' = h.global_options
        /\ not_found' = h.not_found
        /\ method_not_allowed' = h.method_not_allowed
  /\ UNCHANGED <<trees, global_allowed, routes, panicked, last>>

----------------------------------------------------------------------------
(* The tree specification: registrations and manual lookups *)

\* the methods routes are registered under and looked up
RouteMethods == {"GET", "POST"}

\* the paths looked up: every path that begins with '/', and of the others,
\* which no route can match, the empty one and two more
LookupPaths ==
  {p \in PathsUpTo(MaxPathLen) : p # <<>> /\ p[1] = "/"}
    \cup {<<>>, <<"a">>, <<"a", "/">>}

Register ==
  /\ Cardinality(routes) < MaxRoutes
  /\ \E m \in RouteMethods, p \in Patterns : handle(m, p, HandlerOf(m, p))

Find == \E m \in RouteMethods, p \in LookupPaths : Lookup(m, p)

Next == Register \/ Find \/ Return

Spec == Init /\ [][Next]_vars

----------------------------------------------------------------------------
(* The dispatch specification: configuration, registrations under every   *)
(* method, the allowed-methods query and serve                             *)

\* the patterns offered here: a static route that ends in '/' and a named
\* parameter, so that a miss may be one '/' short or one '/' long
ServePatterns ==
  { <<"/", "a", "/">>,
    <<"/", ":", "x">> }

RegisterServed ==
  /\ Cardinality(routes) < MaxServeRoutes
  /\ \E m \in Methods, p \in ServePatterns : handle(m, p, HandlerOf(m, p))

\* the paths of a request: Uri::path() begins with '/', or is "*"
RequestPaths ==
  {p \in PathsUpTo(MaxServePathLen) : p # <<>> /\ p[1] = "/"} \cup {<<"*">>}

Request == \E m \in Methods, p \in RequestPaths : Serve(m, p)

NextServe == Configure \/ RegisterServed \/ Request \/ Return

SpecServe == Init /\ [][NextServe]_vars

----------------------------------------------------------------------------
(* The query specification: registrations under every method, manual      *)
(* lookups and the allowed-methods query                                   *)

RegisterQueried ==
  /\ Cardinality(routes) < MaxQueryRoutes
  /\ \E m \in Methods, p \in ServePatterns : handle(m, p, HandlerOf(m, p))

Query == \E m \in Methods, p \in RequestPaths : Allowed(p, m)

FindServed == \E m \in Methods, p \in RequestPaths : Lookup(m, p)

NextQuery == RegisterQueried \/ Query \/ FindServed \/ Return

SpecQuery == Init /\ [][NextQuery]_vars

----------------------------------------------------------------------------
(* Vocabulary of the claims *)

\* the routes registered for a method, as <<method, pattern, handler>>
RoutesOf(method) == {r \in routes : r[1] = method}

\* the names of the named parameters of a pattern, left to right
RECURSIVE ParamNames(_)
ParamNames(pattern) ==
  IF pattern = <<>> THEN <<>>
  ELSE IF pattern[1] = ":"
  THEN LET k == SegLen(Drop(pattern, 1))
       IN  <<SubSeq(pattern, 2, k + 1)>> \o ParamNames(Drop(pattern, k + 1))
  ELSE ParamNames(Tail(pattern))

\* the pattern with each ':name' replaced by the next of the values
RECURSIVE Subst(_, _)
Subst(pattern, values) ==
  IF pattern = <<>> THEN <<>>
  ELSE IF pattern[1] = ":"
  THEN Head(values) \o Subst(Drop(pattern, 1 + SegLen(Drop(pattern, 1))), Tail(values))
  ELSE <<pattern[1]>> \o Subst(Tail(pattern), values)

\* the non-empty, slash-free strings a path is made of: every value that a
\* substitution producing this path can have used is one of them
Values(path) == {Split(path)[i] : i \in 1..Len(Split(path))} \ {<<>>}

\* the path with one trailing '/' removed, or with '/' appended
Flip(p) ==
  IF p # <<>> /\ p[Len(p)] = "/" THEN Take(p, Len(p) - 1) ELSE p \o <<"/">>

\* the tree that registering the routes in the given order builds
RECURSIVE TreeOf(_)
TreeOf(order) ==
  IF order = <<>> THEN Done(EmptyNode)
  ELSE LET before == TreeOf(Take(order, Len(order) - 1))
           r == order[Len(order)]
       IN  IF before.ok THEN add_route(before.node, r[2], r[3]) ELSE before

\* q holds a named parameter where p holds one of another name
WildClash(q, p) ==
  \E i \in 1..Len(q) :
     /\ i <= Len(p) /\ Take(q, i) = Take(p, i) /\ q[i] = ":"
     /\ Take(Drop(q, i), SegLen(Drop(q, i))) # Take(Drop(p, i), SegLen(Drop(p, i)))

----------------------------------------------------------------------------
(* Claims *)

\* C1: a lookup of a registered pattern, its named parameters replaced by
\* non-empty slash-free values, returns Ok with the handler of the route and
\* the parameters (name, value) in path order.
C1_ParamsOfRegisteredRoute ==
  last.op = "lookup" =>
    \A r \in RoutesOf(last.method) :
      LET names == ParamNames(r[2])
      IN  "*" \notin {r[2][i] : i \in 1..Len(r[2])} =>
            \A vs \in [1..Len(names) -> Values(last.path)] :
               Subst(r[2], vs) = last.path =>
                 last.res = Ok(r[3], [i \in 1..Len(names) |-> Param(names[i], vs[i])])

C1_Witness ==
  /\ last.op = "lookup" /\ last.res.kind = "Ok"
  /\ Len(last.res.params) = 2
  /\ last.res.params[1].value # last.res.params[2].value
  /\ \E r \in RoutesOf(last.method) : r[3] = last.res.value /\ ParamNames(r[2]) # <<>>

\* C2: below a catch-all route "<prefix>/*name", a path "<prefix>" followed
\* by a remainder that starts with '/' is matched with name bound to the
\* whole remainder, its '/' characters included.
C2_CatchAllTakesRemainder ==
  last.op = "lookup" =>
    \A r \in RoutesOf(last.method) :
      LET n == Len(r[2])
          star == {i \in 2..n : r[2][i] = "*" /\ r[2][i - 1] = "/"}
      IN  \A i \in star :
            LET prefix == Take(r[2], i - 2)
            IN  (/\ ~HasWild(prefix)
                 /\ IsPrefix(prefix \o <<"/">>, last.path))
                => last.res = Ok(r[3], <<Param(Drop(r[2], i), Drop(last.path, Len(prefix)))>>)

C2_Witness ==
  /\ last.op = "lookup" /\ last.res.kind = "Ok"
  /\ Len(last.res.params) = 1
  /\ LET v == last.res.params[1].value
     IN  Len(v) >= 2 /\ v[1] = "/" /\ \E i \in 2..Len(v) : v[i] = "/"

\* C3: a miss recommends the trailing-slash redirect exactly when the path
\* with its trailing '/' removed, or with '/' appended, is a hit.
C3_TsrIffFlippedPathHits ==
  (last.op = "lookup" /\ last.res.kind = "Err") =>
    (last.res.tsr <=> lookup(last.method, Flip(last.path)).result.kind = "Ok")

C3_Witness ==
  /\ last.op = "lookup" /\ last.res.kind = "Err" /\ last.res.tsr
  /\ last.path # <<>> /\ last.path[Len(last.path)] = "/"

\* C4: registering a pattern that is already registered for the method, or a
\* named parameter where the method has one of another name, fails in the
\* handle call; the same pattern under a method without routes is accepted.
C4_ConflictFailsInHandle ==
  [][last'.op = "handle" =>
       LET m == last'.method
           p == last'.path
       IN  /\ (\E r \in RoutesOf(m) : r[2] = p \/ WildClash(r[2], p))
                => (~last'.res.ok /\ panicked' /\ routes' = routes)
           /\ (RoutesOf(m) = {} /\ \E r \in routes : r[2] = p)
                => (last'.res.ok /\ ~panicked' /\ <<m, p, last'.arg>> \in routes')]_vars

C4_Witness ==
  /\ last.op = "handle" /\ ~last.res.ok /\ panicked
  /\ \E r \in RoutesOf(last.method) : r[2] # last.path /\ WildClash(r[2], last.path)

\* C5: the result of a lookup does not depend on the order in which the
\* routes of the method were registered.
C5_OrderOfRegistration ==
  (last.op = "lookup" /\ RoutesOf(last.method) # {}) =>
    \A order \in Orders(RoutesOf(last.method)) :
       LET built == TreeOf(order)
       IN  built.ok /\ get_value(built.node, last.path) = last.res

C5_Witness ==
  /\ last.op = "lookup" /\ last.res.kind = "Ok"
  /\ Cardinality(RoutesOf(last.method)) = 3
  /\ \E order \in Orders(RoutesOf(last.method)) :
        /\ TreeOf(order).ok
        /\ TreeOf(order).node # trees[last.method]

\* the tokens of a comma-space-joined string, or <<"?">> when the string is
\* not tokens separated by ", "
Tokens(str) ==
  IF str = <<>> THEN <<>>
  ELSE IF Len(str) % 2 = 1 /\ \A i \in 1..Len(str) : (i % 2 = 0) <=> (str[i] = ", ")
  THEN [i \in 1..((Len(str) + 1) \div 2) |-> str[2 * i - 1]]
  ELSE <<"?">>

\* str lists each method of M once, in some order, and then OPTIONS
ListsThenOptions(str, M) ==
  LET t == Tokens(str)
  IN  /\ Len(t) = Cardinality(M) + 1
      /\ t[Len(t)] = "OPTIONS"
      /\ {t[i] : i \in 1..(Len(t) - 1)} = M

\* the methods, other than the requested one, whose tree matches the path
OtherMatching(path, req_method) ==
  {m \in DOMAIN trees : m # req_method /\ get_value(trees[m], path).kind = "Ok"}

\* C6, as claimed: allowed lists every method other than the requested one
\* whose tree matches the path, OPTIONS being the last token, and is empty
\* when no method matches.
C6_AllowedListsEveryOtherMethod ==
  (last.op = "allowed" /\ last.path # <<"*">>) =>
    LET M == OtherMatching(last.path, last.method)
        t == Tokens(last.res.allow)
    IN  IF M = {} THEN last.res.allow = <<>>
        ELSE /\ t # <<>> /\ t[Len(t)] = "OPTIONS"
             /\ M \subseteq {t[i] : i \in 1..Len(t)}
             /\ {t[i] : i \in 1..Len(t)} \subseteq M \cup {"OPTIONS"}

\* C6, amended: allowed lists, each once, the methods other than the
\* requested one and other than OPTIONS whose tree matches the path, then
\* OPTIONS as the last token; it is empty when no such method matches.
C6_AllowedSkipsOptionsTree ==
  (last.op = "allowed" /\ last.path # <<"*">>) =>
    LET M == OtherMatching(last.path, last.method) \ {"OPTIONS"}
    IN  IF M = {} THEN last.res.allow = <<>>
        ELSE ListsThenOptions(last.res.allow, M)

C6_Witness ==
  /\ last.op = "allowed" /\ last.path # <<"*">>
  /\ Len(Tokens(last.res.allow)) = 3
  /\ "OPTIONS" \in OtherMatching(last.path, last.method)

IsRedirect(resp) == resp.kind \in {"redirect_tsr", "redirect_fixed"}

\* C7, as claimed: an automatic redirect carries 301 for GET and 307 for
\* every other method.
C7_RedirectStatus ==
  (last.op = "serve" /\ IsRedirect(last.res)) =>
    last.res.status = IF last.method = "GET" THEN 301 ELSE 307

\* the request was not routed: no handler of its method matched its path
\* and no redirect was issued
Unrouted == last.res.kind \notin {"route", "redirect_tsr", "redirect_fixed"}

NotFoundReply ==
  IF not_found # None
  THEN last.res.kind = "not_found" /\ last.res.handler = not_found
  ELSE last.res.kind = "404" /\ last.res.status = 404

NotAllowedReply(M) ==
  IF method_not_allowed # None
  THEN last.res.kind = "method_not_allowed" /\ last.res.handler = method_not_allowed
  ELSE /\ last.res.kind = "405" /\ last.res.status = 405
       /\ ListsThenOptions(last.res.allow, M)

C9_LookupsAreReadOnly ==
  [][\A m \in Methods, p \in RequestPaths :
       /\ (last'.op = "lookup" /\ last'.method = m /\ last'.path = p) =>
            /\ trees' = trees
            /\ (lookup(m, p).result)' = last'.res
            /\ m \notin DOMAIN trees => last'.res = Err(FALSE)
       /\ (last'.op = "allowed" /\ last'.method = m /\ last'.path = p) =>
            /\ trees' = trees
            /\ last'.res.allow \in (allowed(p, m))']_vars

C9_Witness ==
  /\ last.op = "lookup" /\ last.method \notin DOMAIN trees
  /\ DOMAIN trees # {}

\* C10: serve issues the trailing-slash redirect exactly when the tree of
\* the method returns Err(true), redirect_trailing_slash is set, the method
\* is not CONNECT and the path is not "/"; it goes to the path without its
\* final '/', or with '/' appended; CONNECT and "/" are never redirected.
C10_TrailingSlashRedirect ==
  last.op = "serve" =>
    LET m == last.method
        p == last.path
    IN  /\ last.res.kind = "redirect_tsr" <=>
             /\ m \in DOMAIN trees
             /\ get_value(trees[m], p) = Err(TRUE)
             /\ redirect_trailing_slash
             /\ m # "CONNECT"
             /\ p # <<"/">>
        /\ last.res.kind = "redirect_tsr" => last.res.location = Flip(p)
        /\ (m = "CONNECT" \/ p = <<"/">>) => ~IsRedirect(last.res)

C10_Witness ==
  /\ last.op = "serve" /\ last.res.kind = "redirect_tsr"
  /\ last.method = "OPTIONS" /\ handle_options /\ redirect_fixed_path
  /\ find_case_insensitive_path(trees[last.method], clean_path(last.path), TRUE).found
  /\ allowed(last.path, "OPTIONS") # {<<>>}

====
